---------------------------- MODULE Spec2Model ----------------------------
(***************************************************************************)
(* py-reqforge: the package-state engine of the App component.             *)
(*                                                                         *)
(* State is the React state of App (packages, settings.autoResolve,        *)
(* isResolvingDependencies, dependencyResolution) plus the asynchronous    *)
(* continuations a handler leaves behind (a resolver call it awaits, the   *)
(* 100 ms timer of handlePackageRemove).  A handler is invoked through the *)
(* closure of the latest render, so what it reads from its closure is the  *)
(* state at the moment of the call; what a continuation reads after an     *)
(* await or inside the timer callback is the snapshot taken at that call.  *)
(*                                                                         *)
(* Text is a sequence of tokens: an alphanumeric run (a name, a version, a *)
(* digest) is one token, every punctuation character is a token of its own *)
(* and the literal "--hash=" is one token.                                 *)
(***************************************************************************)
EXTENDS Integers, Sequences, FiniteSets, TLC

VARIABLES
    packages,                   \* useState<Package[]>
    autoResolve,                \* settings.autoResolve
    isResolvingDependencies,    \* useState(false)
    dependencyResolution,       \* useState<DependencyResolution | null>
    pending,                    \* continuations: timers and awaited resolver calls
    calls,                      \* handler invocations so far
    last,                       \* history: the step that produced this state
    panel,                      \* SettingsPanel: isRefreshing, lastRefresh (0 for null), remainingTime
    now,                        \* Date.now(), in seconds
    refreshed                   \* history: when the last refresh request succeeded, 0 if none has

\* the state of the cache refresh button and its clock
panelVars == <<panel, now, refreshed>>

vars == <<packages, autoResolve, isResolvingDependencies,
          dependencyResolution, pending, calls, last, panel, now, refreshed>>

-----------------------------------------------------------------------------
(* Values *)

\* JavaScript's undefined, for the optional fields hash and fullName
None == "undefined"

\* a JavaScript string used as a condition
Truthy(s) == s # None /\ s # ""

Pkg(n, v, d, h, f) ==
    [name |-> n, version |-> v, isDependency |-> d, hash |-> h, fullName |-> f]

\* String.prototype.toLowerCase on the names the model uses
Lower(s) ==
    CASE s = "Flask" -> "flask"
      [] OTHER -> s

OpChars == {">", "=", "<", "~", "!"}

Blank == {" ", "\t"}

\* the tokens of a string the model holds: the one string that is not a
\* single token is the version typed with an operator in front
Lex(s) ==
    CASE s = ">=7.7" -> <<">", "=", "7.7">>
      [] OTHER -> <<s>>

RECURSIVE Join(_)
Join(ts) == IF ts = <<>> THEN "" ELSE Head(ts) \o Join(Tail(ts))

RECURSIVE TrimStart(_)
TrimStart(ts) ==
    IF ts # <<>> /\ Head(ts) \in Blank THEN TrimStart(Tail(ts)) ELSE ts

RECURSIVE TrimEnd(_)
TrimEnd(ts) ==
    IF ts # <<>> /\ ts[Len(ts)] \in Blank
    THEN TrimEnd(SubSeq(ts, 1, Len(ts) - 1))
    ELSE ts

\* String.prototype.trim
Trim(ts) == TrimEnd(TrimStart(ts))

\* index of the first token of ts that is in S, 0 if there is none
FirstIn(ts, S) ==
    IF \E i \in 1..Len(ts) : ts[i] \in S
    THEN CHOOSE i \in 1..Len(ts) :
            ts[i] \in S /\ \A j \in 1..(i - 1) : ts[j] \notin S
    ELSE 0

Before(ts, i) == IF i = 0 THEN ts ELSE SubSeq(ts, 1, i - 1)

From(ts, i) == IF i = 0 THEN <<>> ELSE SubSeq(ts, i, Len(ts))

\* versionSpec.replace(/[>=<~!=]+/, ''): the first run of operator
\* characters is deleted, the text around it is kept
RECURSIVE DropRun(_)
DropRun(ts) ==
    IF ts # <<>> /\ Head(ts) \in OpChars THEN DropRun(Tail(ts)) ELSE ts

StripOps(ts) ==
    LET i == FirstIn(ts, OpChars)
    IN  IF i = 0 THEN ts ELSE Before(ts, i) \o DropRun(From(ts, i))

Names(ps) == {ps[i].name : i \in 1..Len(ps)}

-----------------------------------------------------------------------------
(* parseRequirementsContent *)

White == Blank \cup {"\n"}

RECURSIVE SkipWhite(_)
SkipWhite(ts) ==
    IF ts # <<>> /\ Head(ts) \in White THEN SkipWhite(Tail(ts)) ELSE ts

\* the maximal whitespace run at the head of ts
WhiteRun(ts) == SubSeq(ts, 1, Len(ts) - Len(SkipWhite(ts)))

HasNewline(ts) == \E i \in 1..Len(ts) : ts[i] = "\n"

\* content.replace(/\\\s*\n\s*/g, ' ').replace(/\\\s*$/gm, ' ')
RECURSIVE NormalizeContent(_)
NormalizeContent(ts) ==
    IF ts = <<>> THEN <<>>
    ELSE IF Head(ts) = "\\"
              /\ (HasNewline(WhiteRun(Tail(ts))) \/ SkipWhite(Tail(ts)) = <<>>)
         THEN <<" ">> \o NormalizeContent(SkipWhite(Tail(ts)))
         ELSE <<Head(ts)>> \o NormalizeContent(Tail(ts))

\* String.prototype.split('\n')
RECURSIVE SplitLines(_)
SplitLines(ts) ==
    LET i == FirstIn(ts, {"\n"})
    IN  IF i = 0 THEN <<ts>>
        ELSE <<Before(ts, i)>> \o SplitLines(SubSeq(ts, i + 1, Len(ts)))

\* tokens that begin with two dashes
DashTokens == {"--hash=", "--index-url"}

\* line.trim() && !line.trim().startsWith('#') && !line.trim().startsWith('--')
KeepLine(line) ==
    LET t == SkipWhite(TrimEnd(line))
    IN  t # <<>> /\ Head(t) # "#" /\ Head(t) \notin DashTokens

HexTokens == {"aa", "bb", "dd", "deadbeef"}

\* the digest of the last directive of a line
HashOfLast(ts) ==
    LET at == {i \in 1..(Len(ts) - 2) :
                  ts[i] = "--hash=" /\ ts[i + 1] = "sha256:" /\ ts[i + 2] \in HexTokens}
    IN  IF at = {} THEN None
        ELSE ts[(CHOOSE i \in at : \A j \in at : i >= j) + 2]

\* line.match(/--hash=sha256:([a-f0-9]+)/): the digest of the first directive
RECURSIVE HashOf(_)
HashOf(ts) ==
    IF Len(ts) < 3 THEN None
    ELSE IF ts[1] = "--hash=" /\ ts[2] = "sha256:" /\ ts[3] \in HexTokens
         THEN ts[3]
         ELSE HashOf(Tail(ts))

\* line.replace(/\s*--hash=.*$/, '').trim()
CleanLine(line) == Trim(Before(line, FirstIn(line, {"--hash="})))

\* cleanLine.split(';')[0].trim()
PackageSpec(line) ==
    LET c == CleanLine(line) IN Trim(Before(c, FirstIn(c, {";"})))

\* packageSpec.match(/^([^>=<~!]+)([>=<~!].*)$/)
VersionMatch(spec) == FirstIn(spec, OpChars) > 1

\* fullName.includes('[') ? fullName.substring(0, fullName.indexOf('[')) : fullName
BasePackageName(full) == Before(full, FirstIn(full, {"["}))

ParseLine(line) ==
    LET spec == PackageSpec(line)
        i    == FirstIn(spec, OpChars)
    IN  IF VersionMatch(spec)
        THEN LET fullName    == Trim(Before(spec, i))
                 versionSpec == Trim(From(spec, i))
             IN  Pkg(Join(BasePackageName(fullName)), Join(StripOps(versionSpec)),
                     FALSE, HashOf(line), Join(fullName))
        ELSE Pkg(Join(BasePackageName(spec)), "latest",
                 FALSE, HashOf(line), Join(spec))

RECURSIVE ParseLines(_)
ParseLines(ls) ==
    IF ls = <<>> THEN <<>>
    ELSE LET rest == ParseLines(Tail(ls))
         IN  IF KeepLine(Head(ls)) /\ ParseLine(Head(ls)).name # ""
             THEN <<ParseLine(Head(ls))>> \o rest
             ELSE rest

parseRequirementsContent(content) == ParseLines(SplitLines(NormalizeContent(content)))

-----------------------------------------------------------------------------
(* Specifiers and the fallback table *)

\* a specifier that never carries the version
SpecOfBare(n, v) == <<n>>

\* pkg.version === 'latest' ? pkg.name : `${pkg.name}==${pkg.version}`
SpecOf(n, v) == IF v = "latest" THEN <<n>> ELSE <<n, "=", "=">> \o Lex(v)

RECURSIVE MainSpecs(_)
MainSpecs(ps) ==
    IF ps = <<>> THEN <<>>
    ELSE IF Head(ps).isDependency THEN MainSpecs(Tail(ps))
         ELSE <<SpecOf(Head(ps).name, Head(ps).version)>> \o MainSpecs(Tail(ps))

RECURSIVE AllSpecs(_)
AllSpecs(ps) ==
    IF ps = <<>> THEN <<>>
    ELSE <<SpecOf(Head(ps).name, Head(ps).version)>> \o AllSpecs(Tail(ps))

mockDependencies(n) ==
    CASE n = "django"       -> <<"sqlparse", "asgiref", "pytz">>
      [] n = "flask"        -> <<"werkzeug", "jinja2", "click", "itsdangerous">>
      [] n = "requests"     -> <<"urllib3", "certifi", "charset-normalizer", "idna">>
      [] n = "fastapi"      -> <<"pydantic", "starlette", "typing-extensions">>
      [] n = "pandas"       -> <<"numpy", "python-dateutil", "pytz">>
      [] n = "tensorflow"   -> <<"numpy", "six", "protobuf", "h5py">>
      [] n = "pytest"       -> <<"iniconfig", "packaging", "pluggy">>
      [] n = "scikit-learn" -> <<"numpy", "scipy", "joblib", "threadpoolctl">>
      [] OTHER              -> <<>>

\* a fallback that adds no dependency record
addNoDependencies(n) == <<>>

addDependencies(n) ==
    LET deps == mockDependencies(n)
    IN  [i \in 1..Len(deps) |-> Pkg(deps[i], "latest", TRUE, None, None)]

\* templatePkg.split(/[>=<~!]/)[0].trim()
TemplateName(spec) == Join(Trim(Before(spec, FirstIn(spec, OpChars))))

\* the record handleTemplateSelect builds for one template specifier
TemplatePkg(spec) ==
    LET i == FirstIn(spec, OpChars)
    IN  IF VersionMatch(spec)
        THEN Pkg(Join(Trim(Before(spec, i))), Join(StripOps(Trim(From(spec, i)))),
                 FALSE, None, None)
        ELSE Pkg(Join(spec), "0.0.0", FALSE, None, None)

\* prev => [...prev, ...newPackages.filter(p => !existingNames.has(p.name))]
AppendUnique(prev, new) ==
    LET Fresh(p) == p.name \notin Names(prev)
    IN  prev \o SelectSeq(new, Fresh)

-----------------------------------------------------------------------------
(* The resolution result and its reconciliation with the previous records *)

NoResolution == [present |-> FALSE, packages |-> <<>>, tree |-> <<>>]

\* resolution.tree?.map(tree => tree.name.toLowerCase())
mainPackageNames(res) == {Lower(res.tree[i]) : i \in 1..Len(res.tree)}

\* new Map(list.map(pkg => [pkg.name.toLowerCase(), pkg])).get(key):
\* of several records with one key the Map keeps the last
MapHas(list, key) == \E i \in 1..Len(list) : Lower(list[i].name) = key

MapGet(list, key) ==
    list[CHOOSE i \in 1..Len(list) :
            /\ Lower(list[i].name) = key
            /\ \A j \in (i + 1)..Len(list) : Lower(list[j].name) # key]

\* existingPkg?.hash || resolvedPkg?.sha256_hash
PreferExisting(existing, resolved) == IF Truthy(existing) THEN existing ELSE resolved

\* the record built for one entry of resolution.packages
Reconciled(existing, res, e) ==
    LET key == Lower(e.name)
        has == MapHas(existing, key)
    IN  Pkg(e.name, e.version,
            key \notin mainPackageNames(res),
            PreferExisting(IF has THEN MapGet(existing, key).hash ELSE None,
                           e.sha256_hash),
            IF has THEN MapGet(existing, key).fullName ELSE None)

\* a merge that keeps the previous records the resolution does not name
ReconcileKeepingStale(existing, res) ==
    LET Stale(p) == \A i \in 1..Len(res.packages) :
                        Lower(res.packages[i].name) # Lower(p.name)
    IN  [i \in 1..Len(res.packages) |-> Reconciled(existing, res, res.packages[i])]
        \o SelectSeq(existing, Stale)

\* Object.entries(resolution.packages).forEach(...); setPackages(allPackages)
Reconcile(existing, res) ==
    [i \in 1..Len(res.packages) |-> Reconciled(existing, res, res.packages[i])]

-----------------------------------------------------------------------------
(* The resolver service behind apiClient.resolveDependencies.  It is not    *)
(* part of the front end: it answers a list of specifiers with the closure  *)
(* of the requested packages, or fails.                                     *)

\* the version the index serves for an unpinned package
ResolvedVersion == "9.0"

\* digests the service may attach to every package of one answer
Digests == {None, "dd"}

\* the direct requirements the index records
Requires(n) ==
    CASE n = "flask"    -> <<"werkzeug">>
      [] n = "pandas"   -> <<"numpy">>
      [] n = "requests" -> <<"urllib3">>
      [] OTHER          -> <<>>

SpecBase(spec) ==
    Lower(Join(BasePackageName(Trim(Before(spec, FirstIn(spec, OpChars))))))

SpecVersion(spec) ==
    LET i == FirstIn(spec, OpChars)
    IN  IF i > 0 /\ i + 2 <= Len(spec) /\ spec[i] = "=" /\ spec[i + 1] = "="
        THEN Join(SubSeq(spec, i + 2, Len(spec)))
        ELSE ResolvedVersion

\* s without the elements already seen, each kept once, in order
RECURSIVE Dedup(_, _)
Dedup(s, seen) ==
    IF s = <<>> THEN <<>>
    ELSE IF Head(s) \in seen THEN Dedup(Tail(s), seen)
         ELSE <<Head(s)>> \o Dedup(Tail(s), seen \cup {Head(s)})

RECURSIVE Flatten(_)
Flatten(ss) == IF ss = <<>> THEN <<>> ELSE Head(ss) \o Flatten(Tail(ss))

\* the first specifier of a name decides its version
RootVersion(specs, n) ==
    SpecVersion(specs[CHOOSE i \in 1..Len(specs) :
                         /\ SpecBase(specs[i]) = n
                         /\ \A j \in 1..(i - 1) : SpecBase(specs[j]) # n])

Resolution(specs, digest) ==
    LET roots == Dedup([i \in 1..Len(specs) |-> SpecBase(specs[i])], {})
        deps  == Dedup(Flatten([i \in 1..Len(roots) |-> Requires(roots[i])]),
                       {roots[i] : i \in 1..Len(roots)})
    IN  [present  |-> TRUE,
         packages |-> [i \in 1..Len(roots) |->
                          [name |-> roots[i],
                           version |-> RootVersion(specs, roots[i]),
                           sha256_hash |-> digest]]
                      \o [i \in 1..Len(deps) |->
                          [name |-> deps[i], version |-> ResolvedVersion,
                           sha256_hash |-> digest]],
         tree     |-> roots]

\* the comparison operators of a version specifier
Operators == {"==", ">=", "<=", "~=", "!=", "<", ">", "==="}

\* a name, then nothing or one operator and a version
WellFormed(spec) ==
    LET i    == FirstIn(spec, OpChars)
        rest == From(spec, i)
        run  == SubSeq(rest, 1, Len(rest) - Len(DropRun(rest)))
    IN  \/ i = 0
        \/ /\ Join(run) \in Operators
           /\ DropRun(rest) # <<>>
           /\ FirstIn(DropRun(rest), OpChars) = 0

\* a request with a malformed specifier is refused: it has no answer but
\* the failure
Responses(specs) ==
    IF \A k \in 1..Len(specs) : WellFormed(specs[k])
    THEN {Resolution(specs, d) : d \in Digests}
    ELSE {}

-----------------------------------------------------------------------------
(* Inputs *)

\* handler invocations in one behaviour
MaxCalls == 3

\* (name, version) pairs the search panel hands to handlePackageSelect
SearchPicks == {<<"flask", "latest">>, <<"Flask", "2.3.0">>, <<"numpy", "1.24.0">>}

\* one entry of the template catalogue: 'minimal'
TemplateCatalog ==
    { << <<"requests", ">", "=", "2.31.0">>, <<"python-dotenv", ">", "=", "1.0.0">> >> }

\* uploaded files
UploadTexts ==
    { <<"flask", "=", "=", "2.3.0", " ", "--hash=", "sha256:", "aa", "\n",
        "flask", "=", "=", "3.0.0">>,
      <<"Flask", ">", "=", "2.3.0", "\n", "#", " ", "comment", "\n", "numpy">>,
      <<"pandas", "=", "=", "2.0.0", " ", "--hash=", "sha256:", "bb", "\n">>,
      <<"#", " ", "empty">> }

\* versions typed into the version editor, and the rows it is opened on
EditedVersions == {"7.7", ">=7.7"}

EditedNames == {"flask", "werkzeug"}

\* the rows whose remove button is pressed
RemovedNames == {"flask", "Flask", "werkzeug", "numpy", "requests"}

-----------------------------------------------------------------------------
(* Continuations *)

\* live: snap is the very array that is the packages state, not a copy, so
\* that a change made to that array in place shows in snap too
Op(kind, phase, name, version, tmpl, snap, specs) ==
    [kind |-> kind, phase |-> phase, name |-> name, version |-> version,
     tmpl |-> tmpl, snap |-> snap, specs |-> specs, live |-> FALSE]

\* the closure of the handler holds the state array itself
Live(op) == [op EXCEPT !.live = TRUE]

\* setPackages has replaced the state array: no closure holds it any more
Detached(ps) == [i \in 1..Len(ps) |-> [ps[i] EXCEPT !.live = FALSE]]

Without(seq, i) == SubSeq(seq, 1, i - 1) \o SubSeq(seq, i + 1, Len(seq))

Event(op, out) == [op |-> op, out |-> out, name |-> "", res |-> NoResolution]

Init ==
    /\ packages = <<>>
    /\ autoResolve = TRUE
    /\ isResolvingDependencies = FALSE
    /\ dependencyResolution = NoResolution
    /\ pending = <<>>
    /\ calls = 0
    /\ last = Event("init", "")
    /\ panel = [isRefreshing |-> FALSE, lastRefresh |-> 0, remainingTime |-> 0]
    /\ now = 1
    /\ refreshed = 0

\* SettingsPanel: onSettingsChange({...settings, autoResolve: !settings.autoResolve})
ToggleAutoResolve ==
    /\ autoResolve' = ~autoResolve
    /\ last' = Event("settings", "")
    /\ UNCHANGED <<packages, isResolvingDependencies, dependencyResolution,
                   pending, calls, panelVars>>

-----------------------------------------------------------------------------
(* handleFileUpload *)

\* a guard that lets every call through
UploadGuardOpen == FALSE

\* if (isResolvingDependencies) return;
UploadGuard == isResolvingDependencies

handleFileUpload(content) ==
    LET parsedPackages == parseRequirementsContent(content)
    IN  IF UploadGuard
        THEN /\ last' = Event("upload", "rejected")
             /\ UNCHANGED <<packages, autoResolve, isResolvingDependencies,
                            dependencyResolution, pending>>
        ELSE IF autoResolve /\ Len(parsedPackages) > 0
        THEN /\ isResolvingDependencies' = TRUE
             /\ pending' = Append(pending,
                    Op("upload", "await", "", "", <<>>, parsedPackages,
                       AllSpecs(parsedPackages)))
             /\ last' = Event("upload", "issued")
             /\ UNCHANGED <<packages, autoResolve, dependencyResolution>>
        ELSE /\ packages' = parsedPackages
             /\ dependencyResolution' = NoResolution
             /\ last' = Event("upload", "local")
             /\ UNCHANGED <<autoResolve, isResolvingDependencies, pending>>

-----------------------------------------------------------------------------
(* handleTemplateSelect *)

\* if (isResolvingDependencies) return;
TemplateGuard == isResolvingDependencies

\* templatePackages.filter(t => !packages.some(pkg => pkg.name === templateName))
newTemplatePackages(templatePackages, pkgs) ==
    LET Fresh(t) == TemplateName(t) \notin Names(pkgs)
    IN  SelectSeq(templatePackages, Fresh)

\* the catch block: every template package as a main record, each followed by
\* its fallback dependencies, appended where the name is not yet present
TemplateFallback(prev, templatePackages, auto) ==
    LET One(t) == <<TemplatePkg(t)>>
                  \o (IF auto THEN addDependencies(TemplatePkg(t).name) ELSE <<>>)
    IN  AppendUnique(prev,
            Flatten([i \in 1..Len(templatePackages) |-> One(templatePackages[i])]))

handleTemplateSelect(templatePackages) ==
    IF TemplateGuard
    THEN /\ last' = Event("template", "rejected")
         /\ UNCHANGED <<packages, autoResolve, isResolvingDependencies,
                        dependencyResolution, pending>>
    ELSE IF autoResolve
    THEN IF newTemplatePackages(templatePackages, packages) = <<>>
         THEN /\ last' = Event("template", "duplicate")
              /\ UNCHANGED <<packages, autoResolve, isResolvingDependencies,
                             dependencyResolution, pending>>
         ELSE /\ isResolvingDependencies' = TRUE
              /\ pending' = Append(pending,
                     Live(Op("template", "await", "", "", templatePackages, packages,
                             MainSpecs(packages)
                             \o newTemplatePackages(templatePackages, packages))))
              /\ last' = Event("template", "issued")
              /\ UNCHANGED <<packages, autoResolve, dependencyResolution>>
    ELSE /\ packages' = AppendUnique(packages,
                [i \in 1..Len(templatePackages) |-> TemplatePkg(templatePackages[i])])
         /\ last' = Event("template", "local")
         /\ UNCHANGED <<autoResolve, isResolvingDependencies,
                        dependencyResolution, pending>>

-----------------------------------------------------------------------------
(* handlePackageSelect *)

\* a guard that lets every call through
SelectGuardOpen == FALSE

\* if (isResolvingDependencies) return;
SelectGuard == isResolvingDependencies

\* a test that sees the main records only
packageExistsAsMain(pkgs, packageName) ==
    \E k \in 1..Len(pkgs) : pkgs[k].name = packageName /\ ~pkgs[k].isDependency

\* packages.some(pkg => pkg.name === packageName)
packageExists(pkgs, packageName) == packageName \in Names(pkgs)

\* the catch block: the new main record and, with auto-resolve, its fallback
\* dependencies, appended where the name is not yet present
SelectFallback(prev, packageName, version, auto) ==
    AppendUnique(prev,
        <<Pkg(packageName, version, FALSE, None, None)>>
        \o (IF auto THEN addDependencies(packageName) ELSE <<>>))

handlePackageSelect(packageName, version) ==
    IF SelectGuard
    THEN /\ last' = [Event("select", "rejected") EXCEPT !.name = packageName]
         /\ UNCHANGED <<packages, autoResolve, isResolvingDependencies,
                        dependencyResolution, pending>>
    ELSE IF autoResolve
    THEN IF packageExists(packages, packageName)
         THEN /\ last' = [Event("select", "duplicate") EXCEPT !.name = packageName]
              /\ UNCHANGED <<packages, autoResolve, isResolvingDependencies,
                             dependencyResolution, pending>>
         ELSE /\ isResolvingDependencies' = TRUE
              /\ pending' = Append(pending,
                     Live(Op("select", "await", packageName, version, <<>>, packages,
                             MainSpecs(packages) \o <<SpecOf(packageName, version)>>)))
              /\ last' = [Event("select", "issued") EXCEPT !.name = packageName]
              /\ UNCHANGED <<packages, autoResolve, dependencyResolution>>
    ELSE /\ packages' = (IF packageName \notin Names(packages)
                         THEN Append(packages,
                                     Pkg(packageName, version, FALSE, None, None))
                         ELSE packages)
         /\ last' = [Event("select", "local") EXCEPT !.name = packageName]
         /\ UNCHANGED <<autoResolve, isResolvingDependencies,
                        dependencyResolution, pending>>

-----------------------------------------------------------------------------
(* handlePackageRemove *)

\* a Remove that is accepted whatever the flag says
RemoveGuardOpen == FALSE

\* if (isResolvingDependencies) return;
RemoveGuard == isResolvingDependencies

\* pkgs.filter(pkg => pkg.name !== packageName)
withoutTarget(pkgs, packageName) ==
    LET Other(p) == p.name # packageName IN SelectSeq(pkgs, Other)

\* pkgs.filter(pkg => !pkg.isDependency)
mainPackages(pkgs) ==
    LET Main(p) == ~p.isDependency IN SelectSeq(pkgs, Main)

\* prev.find(pkg => pkg.name === packageName)
Find(pkgs, packageName) ==
    pkgs[CHOOSE i \in 1..Len(pkgs) :
            /\ pkgs[i].name = packageName
            /\ \A j \in 1..(i - 1) : pkgs[j].name # packageName]

\* an updater that leaves the removal to the re-resolution
RemoveUpdaterDeferred(prev, packageName) == prev

\* an updater that drops the target and nothing else
RemoveUpdaterKeepingDependencies(prev, packageName) ==
    withoutTarget(prev, packageName)

\* the updater passed to setPackages
RemoveUpdater(prev, packageName) ==
    IF packageName \notin Names(prev) THEN prev
    ELSE IF Find(prev, packageName).isDependency
         THEN withoutTarget(prev, packageName)
    ELSE IF mainPackages(withoutTarget(prev, packageName)) = <<>> THEN <<>>
    ELSE withoutTarget(prev, packageName)

\* if (settings.autoResolve) { setTimeout(..., 100) } else { setIsResolving(false) }
SchedulesTimer(auto, pkgs, packageName) == auto

handlePackageRemove(packageName) ==
    IF RemoveGuard
    THEN /\ last' = [Event("remove", "rejected") EXCEPT !.name = packageName]
         /\ UNCHANGED <<packages, autoResolve, isResolvingDependencies,
                        dependencyResolution, pending>>
    ELSE /\ packages' = RemoveUpdater(packages, packageName)
         /\ IF SchedulesTimer(autoResolve, packages, packageName)
            THEN /\ isResolvingDependencies' = TRUE
                 /\ pending' = Append(pending,
                        Op("remove", "timer", packageName, "", <<>>, packages, <<>>))
                 /\ last' = [Event("remove", "scheduled") EXCEPT !.name = packageName]
            ELSE /\ last' = [Event("remove", "local") EXCEPT !.name = packageName]
                 /\ UNCHANGED <<isResolvingDependencies, pending>>
         /\ UNCHANGED <<autoResolve, dependencyResolution>>

\* a callback that reads the package list present when the timer fires
currentPackagesAtFire(snap, cur, packageName) == withoutTarget(cur, packageName)

\* packages.filter(pkg => pkg.name !== packageName) in the setTimeout
\* callback: packages is the list of the render in which handlePackageRemove
\* was called (snap), not the list present when the timer fires (cur)
currentPackages(snap, cur, packageName) == withoutTarget(snap, packageName)

\* the setTimeout callback, up to its await
RemoveTimerFires(i) ==
    /\ pending[i].phase = "timer"
    /\ LET op      == pending[i]
           current == currentPackages(op.snap, packages, op.name)
       IN  IF Len(mainPackages(current)) > 0
           THEN /\ pending' = [pending EXCEPT ![i] =
                       Op("remove", "await", op.name, "", <<>>, current,
                          AllSpecs(mainPackages(current)))]
                /\ last' = [Event("remove", "issued") EXCEPT !.name = op.name]
                /\ UNCHANGED isResolvingDependencies
           ELSE /\ pending' = Without(pending, i)
                /\ isResolvingDependencies' = FALSE
                /\ last' = [Event("remove", "idle") EXCEPT !.name = op.name]
    /\ UNCHANGED <<packages, autoResolve, dependencyResolution, calls, panelVars>>

-----------------------------------------------------------------------------
(* The resolver answers *)

\* a removal whose resolver call ends without releasing the flag
FlagKeptAfterRemove(op) == op.kind = "remove"

\* finally { setIsResolvingDependencies(false) }: the flag once the awaited
\* call has been handled
FlagAfterAnswer(op) == FALSE

\* a catch block that issues the failed call again
RetryAfterFailure(ps, i) == ps

\* the continuations once a catch block has run: the call is over
AfterFailure(ps, i) == Without(ps, i)

\* try { ... setDependencyResolution(resolution); setPackages(allPackages) }
\* finally { setIsResolvingDependencies(false) }
ResolverSucceeds(i, res) ==
    /\ pending[i].phase = "await"
    /\ dependencyResolution' = res
    /\ packages' = Reconcile(pending[i].snap, res)
    /\ isResolvingDependencies' = FlagAfterAnswer(pending[i])
    /\ pending' = Without(pending, i)
    /\ last' = [op |-> pending[i].kind, out |-> "resolved",
                name |-> pending[i].name, res |-> res]
    /\ UNCHANGED <<autoResolve, calls, panelVars>>

\* what each catch block passes to setPackages
FailurePackages(op, prev) ==
    CASE op.kind = "upload"   -> op.snap
      [] op.kind = "template" -> TemplateFallback(prev, op.tmpl, TRUE)
      [] op.kind = "select"   -> SelectFallback(prev, op.name, op.version, TRUE)
      [] op.kind = "remove"   -> prev

\* every catch block clearing the stored resolution
FailureResolutionCleared(op, cur) == NoResolution

\* only handleFileUpload's catch block calls setDependencyResolution(null)
FailureResolution(op, cur) ==
    IF op.kind = "upload" THEN NoResolution ELSE cur

\* catch { ... } finally { setIsResolvingDependencies(false) }
ResolverFails(i) ==
    /\ pending[i].phase = "await"
    /\ packages' = FailurePackages(pending[i], packages)
    /\ dependencyResolution' = FailureResolution(pending[i], dependencyResolution)
    /\ isResolvingDependencies' = FlagAfterAnswer(pending[i])
    /\ pending' = AfterFailure(pending, i)
    /\ last' = [Event(pending[i].kind, "failed") EXCEPT !.name = pending[i].name]
    /\ UNCHANGED <<autoResolve, calls, panelVars>>

-----------------------------------------------------------------------------
(* handlePackageUpdate *)

\* an edit that also turns the edited record into a main record
withVersionAsMain(prev, packageName, newVersion) ==
    [i \in 1..Len(prev) |->
        IF prev[i].name = packageName
        THEN [prev[i] EXCEPT !.version = newVersion, !.isDependency = FALSE]
        ELSE prev[i]]

\* an edit that is dropped
withVersionIgnored(prev, packageName, newVersion) == prev

\* prev.map(pkg => pkg.name === packageName ? {...pkg, version: newVersion} : pkg)
withVersion(prev, packageName, newVersion) ==
    [i \in 1..Len(prev) |->
        IF prev[i].name = packageName
        THEN [prev[i] EXCEPT !.version = newVersion]
        ELSE prev[i]]

\* setPackages(prev => prev.map(...)): no guard, no resolver call
handlePackageUpdate(packageName, newVersion) ==
    /\ packages' = withVersion(packages, packageName, newVersion)
    /\ pending' = Detached(pending)
    /\ last' = [Event("update", "local") EXCEPT !.name = packageName]
    /\ UNCHANGED <<autoResolve, isResolvingDependencies, dependencyResolution>>

-----------------------------------------------------------------------------
(* ExportManager: generateRequirementsContent *)

\* the settings the export reads
ExportSettings ==
    [showDependencies : BOOLEAN, includeHashes : BOOLEAN,
     exportFormat : {"standard", "pinned", "loose"},
     customIndex : {"", "https://idx"}]

Setting(show, hashes, format, index) ==
    [showDependencies |-> show, includeHashes |-> hashes,
     exportFormat |-> format, customIndex |-> index]

\* the settings an export is run with: those App starts with, the three
\* presets of the settings panel, and one set by hand
ExportPresets ==
    { Setting(TRUE, FALSE, "standard", ""),
      Setting(TRUE, TRUE, "standard", ""),
      Setting(FALSE, FALSE, "loose", ""),
      Setting(FALSE, FALSE, "standard", ""),
      Setting(FALSE, TRUE, "pinned", "https://idx") }

\* the names the model uses, in the order of String.prototype.localeCompare:
\* alphabetical without regard to case, the lowercase form first
CollationOrder ==
    <<"certifi", "charset-normalizer", "click", "flask", "Flask", "idna",
      "itsdangerous", "jinja2", "numpy", "pandas", "python-dateutil",
      "python-dotenv", "pytz", "requests", "urllib3", "werkzeug">>

\* the place of each name in that order
Collation ==
    [n \in {CollationOrder[i] : i \in 1..Len(CollationOrder)} |->
        CHOOSE i \in 1..Len(CollationOrder) : CollationOrder[i] = n]

Rank(n) == Collation[n]

\* the same names in the order of their UTF-16 code units, in which every
\* uppercase letter is ahead of every lowercase letter
OrdinalOrder ==
    <<"Flask", "certifi", "charset-normalizer", "click", "flask", "idna",
      "itsdangerous", "jinja2", "numpy", "pandas", "python-dateutil",
      "python-dotenv", "pytz", "requests", "urllib3", "werkzeug">>

Ordinal ==
    [n \in {OrdinalOrder[i] : i \in 1..Len(OrdinalOrder)} |->
        CHOOSE i \in 1..Len(OrdinalOrder) : OrdinalOrder[i] = n]

\* a comparison by code units: a < b ? -1 : a > b ? 1 : 0
codeUnitCompare(a, b) ==
    IF Ordinal[a] < Ordinal[b] THEN -1 ELSE IF Ordinal[a] > Ordinal[b] THEN 1 ELSE 0

\* a.localeCompare(b)
localeCompare(a, b) ==
    IF Rank(a) < Rank(b) THEN -1 ELSE IF Rank(a) > Rank(b) THEN 1 ELSE 0

\* pkgs.sort((a, b) => a.name.localeCompare(b.name)): a stable sort, so a
\* record goes behind the records that do not compare greater than it
RECURSIVE sortByName(_)
sortByName(pkgs) ==
    IF pkgs = <<>> THEN <<>>
    ELSE LET sorted == sortByName(SubSeq(pkgs, 1, Len(pkgs) - 1))
             pkg    == pkgs[Len(pkgs)]
             behind == {i \in 1..Len(sorted) :
                           localeCompare(sorted[i].name, pkg.name) > 0}
             at     == IF behind = {} THEN Len(sorted) + 1
                       ELSE CHOOSE i \in behind : \A j \in behind : i <= j
         IN  SubSeq(sorted, 1, at - 1) \o <<pkg>>
             \o SubSeq(sorted, at, Len(sorted))

\* settings.showDependencies ? packages : packages.filter(pkg => !pkg.isDependency),
\* then sorted
packagesToExport(pkgs, settings) ==
    sortByName(IF settings.showDependencies THEN pkgs ELSE mainPackages(pkgs))

\* a line that carries the hash of the record whatever includeHashes says
ExportLineAlwaysHashed(pkg, settings) ==
    Lex(IF Truthy(pkg.fullName) THEN pkg.fullName ELSE pkg.name)
    \o (CASE settings.exportFormat = "standard" -> <<"=", "=">> \o Lex(pkg.version)
          [] settings.exportFormat = "pinned"   -> <<">", "=">> \o Lex(pkg.version)
          [] settings.exportFormat = "loose"    -> <<>>)
    \o (IF Truthy(pkg.hash)
        THEN <<" ", "--hash=", "sha256:", pkg.hash>>
        ELSE <<>>)

\* one line of the file: a field is written as it is, so the line holds
\* the tokens of the field
ExportLine(pkg, settings) ==
    Lex(IF Truthy(pkg.fullName) THEN pkg.fullName ELSE pkg.name)
    \o (CASE settings.exportFormat = "standard" -> <<"=", "=">> \o Lex(pkg.version)
          [] settings.exportFormat = "pinned"   -> <<">", "=">> \o Lex(pkg.version)
          [] settings.exportFormat = "loose"    -> <<>>)
    \o (IF settings.includeHashes /\ Truthy(pkg.hash)
        THEN <<" ", "--hash=", "sha256:", pkg.hash>>
        ELSE <<>>)

\* lines.join('\n')
RECURSIVE JoinLines(_)
JoinLines(lines) ==
    IF lines = <<>> THEN <<>>
    ELSE IF Len(lines) = 1 THEN Head(lines)
    ELSE Head(lines) \o <<"\n">> \o JoinLines(Tail(lines))

\* the text generateRequirementsContent returns
requirementsContent(pkgs, settings) ==
    LET exported == packagesToExport(pkgs, settings)
    IN  JoinLines(
            (IF settings.customIndex # ""
             THEN << <<"--index-url", " ", settings.customIndex>>, <<>> >>
             ELSE <<>>)
            \o [k \in 1..Len(exported) |-> ExportLine(exported[k], settings)])

\* what the call leaves in the array it was given: with showDependencies
\* that array is the packages state itself and sort() orders it in place;
\* otherwise filter() has made a copy and the copy is what is sorted
sortedInPlace(pkgs, settings) ==
    IF settings.showDependencies THEN sortByName(pkgs) ELSE pkgs

\* handlePreview, handleExport, handleCopy: each calls
\* generateRequirementsContent() on the packages prop
generateRequirementsContent(settings) ==
    /\ packages' = sortedInPlace(packages, settings)
    /\ pending' = [i \in 1..Len(pending) |->
                      IF pending[i].live
                      THEN [pending[i] EXCEPT
                               !.snap = sortedInPlace(pending[i].snap, settings)]
                      ELSE pending[i]]
    /\ last' = Event("export", IF settings.showDependencies THEN "all" ELSE "main")
    /\ UNCHANGED <<autoResolve, isResolvingDependencies, dependencyResolution>>

-----------------------------------------------------------------------------

\* one invocation of a handler by the user interface
Call(A) == calls < MaxCalls /\ calls' = calls + 1 /\ A /\ UNCHANGED panelVars

Next ==
    \/ ToggleAutoResolve
    \/ \E content \in UploadTexts : Call(handleFileUpload(content))
    \/ \E t \in TemplateCatalog : Call(handleTemplateSelect(t))
    \/ \E pick \in SearchPicks : Call(handlePackageSelect(pick[1], pick[2]))
    \/ \E n \in Names(packages) \cap RemovedNames : Call(handlePackageRemove(n))
    \/ \E n \in EditedNames, v \in EditedVersions :
          Call(handlePackageUpdate(n, v))
    \/ \E settings \in ExportPresets : Call(generateRequirementsContent(settings))
    \/ \E i \in 1..Len(pending) : RemoveTimerFires(i)
    \/ \E i \in 1..Len(pending) :
          \E res \in Responses(pending[i].specs) : ResolverSucceeds(i, res)
    \/ \E i \in 1..Len(pending) : ResolverFails(i)

Spec == Init /\ [][Next]_vars

\* an awaited resolver call is answered: the step of ResolverSucceeds or
\* ResolverFails that ends the continuation pending[i]
Answered ==
    \E i \in 1..Len(pending) :
        /\ pending[i].phase = "await"
        /\ pending' = Without(pending, i)

\* the 100 ms timer fires and the resolver answers every call.  The second
\* conjunct is weak fairness of Answered written out: an answer is possible
\* exactly while a call is awaited.
FairSpec ==
    /\ Spec
    /\ WF_vars(\E i \in 1..Len(pending) : RemoveTimerFires(i))
    /\ \/ []<>(\A i \in 1..Len(pending) : pending[i].phase # "await")
       \/ []<><<Answered>>_vars

-----------------------------------------------------------------------------
(* Properties *)

Keys(res) == {res.packages[i].name : i \in 1..Len(res.packages)}

Awaited == {i \in 1..Len(pending) : pending[i].phase = "await"}

\* C1: no two records of the package set have the same canonical name,
\* compared case-insensitively.
C1_Uniqueness ==
    \A i, j \in 1..Len(packages) :
        i # j => Lower(packages[i].name) # Lower(packages[j].name)

\* C2: at most one resolver call is outstanding at any time, and a
\* continuation exists only while the in-flight flag is set.
C2_SingleFlight ==
    /\ Cardinality(Awaited) <= 1
    /\ Len(pending) <= 1
    /\ pending # <<>> => isResolvingDependencies

\* a call was turned away while a resolver call was outstanding
C2_Witness == Cardinality(Awaited) = 1 /\ last.out = "rejected"

\* C3: AddFromSearch, AddFromTemplate or Upload invoked while the in-flight
\* flag is set changes nothing: packages, lastResolution, the flag and the
\* set of continuations (so nothing is issued or queued) stay as they were.
C3_BusyCallIsNoOp ==
    [][ (/\ isResolvingDependencies
         /\ calls' = calls + 1
         /\ last'.op \in {"select", "template", "upload"})
        => /\ packages' = packages
           /\ dependencyResolution' = dependencyResolution
           /\ isResolvingDependencies' = isResolvingDependencies
           /\ pending' = pending ]_vars

\* an upload was attempted while a continuation was pending
C3_Witness ==
    last.op = "upload" /\ last.out = "rejected" /\ pending # <<>>

\* C4: right after a resolver call succeeds the record names are exactly the
\* keys of that resolution, one record per key, and lastResolution is it.
C4_ClosureFidelity ==
    last.out = "resolved" =>
        /\ Names(packages) = Keys(last.res)
        /\ Len(packages) = Len(last.res.packages)
        /\ dependencyResolution = last.res

\* the re-resolution after a removal succeeded and dropped a record
C4_Witness ==
    /\ last.out = "resolved"
    /\ last.op = "remove"
    /\ Len(packages) > 0

\* C5: while lastResolution exists, a record is main exactly if its
\* lowercased name is a root of lastResolution.tree.
C5_Classification ==
    dependencyResolution.present =>
        \A i \in 1..Len(packages) :
            (~packages[i].isDependency)
                <=> Lower(packages[i].name) \in mainPackageNames(dependencyResolution)

\* the continuation that the step just taken has completed
Completed(i) ==
    /\ i \in 1..Len(pending)
    /\ pending[i].phase = "await"
    /\ pending' = Without(pending, i)

\* every hash known before for a record's lowercased name is the record's
\* hash; where none was known the record has the resolver's digest
HashesPreserved(prev, res, next) ==
    \A k \in 1..Len(next) :
        LET known == {prev[j].hash : j \in {j \in 1..Len(prev) :
                          /\ Lower(prev[j].name) = Lower(next[k].name)
                          /\ prev[j].hash # None}}
        IN  IF known # {}
            THEN \A h \in known : next[k].hash = h
            ELSE next[k].hash = res.packages[k].sha256_hash

\* C6: in a reconciliation pass a record whose lowercased name had a hash
\* before keeps that hash; otherwise it gets the resolver's digest for that
\* name, or none.  A known hash is never replaced by a resolver digest.
C6_MetadataPreservation ==
    [][ last'.out = "resolved" =>
            \A i \in 1..Len(pending) :
                Completed(i) => HashesPreserved(pending[i].snap, last'.res, packages')
      ]_vars

\* C7: after a failed resolver call has been handled, lastResolution is none.
C7_FailureClearsResolution ==
    last.out = "failed" => ~dependencyResolution.present

\* the names a failed add asked for
Requested(op) ==
    IF op.kind = "select" THEN <<Pkg(op.name, op.version, FALSE, None, None)>>
    ELSE [i \in 1..Len(op.tmpl) |-> TemplatePkg(op.tmpl[i])]

Added(old, new) == SubSeq(new, Len(old) + 1, Len(new))

IsPrefix(old, new) == Len(old) <= Len(new) /\ SubSeq(new, 1, Len(old)) = old

FallbackNames(op) ==
    UNION {{mockDependencies(Requested(op)[i].name)[k] :
                k \in 1..Len(mockDependencies(Requested(op)[i].name))} :
           i \in 1..Len(Requested(op))}

MockNames ==
    UNION {{mockDependencies(n)[k] : k \in 1..Len(mockDependencies(n))} :
           n \in {"django", "flask", "requests", "fastapi", "pandas",
                  "tensorflow", "pytest", "scikit-learn"}}

C10_DependencyRemoveSchedulesNothing ==
    \A i \in 1..Len(pending) :
        (pending[i].kind = "remove" /\ pending[i].phase = "timer") =>
            ~(/\ pending[i].name \in Names(pending[i].snap)
              /\ Find(pending[i].snap, pending[i].name).isDependency)

\* the target is a main record and another main record remains without it
MainWithOthers(pkgs, n) ==
    /\ n \in Names(pkgs)
    /\ ~Find(pkgs, n).isDependency
    /\ mainPackages(withoutTarget(pkgs, n)) # <<>>

\* the step is the timer callback of the removal pending[i]
TimerStep(i) ==
    /\ pending[i].kind = "remove"
    /\ pending[i].phase = "timer"
    /\ last'.op = "remove"
    /\ last'.out \in {"issued", "idle"}

\* C11: Remove of a main record with auto-resolve enabled and another main
\* record remaining: right after the call the target is absent and no
\* resolver call is outstanding, only the timer; the timer callback issues
\* exactly one resolver call, with the specifiers of the main records that
\* remained at the call; when that call succeeds the package set is the
\* reconciliation of the response and nothing else.
C11_RemoveMainThenReresolve ==
    [][ /\ (/\ calls' = calls + 1
            /\ last'.op = "remove"
            /\ ~isResolvingDependencies
            /\ autoResolve
            /\ MainWithOthers(packages, last'.name))
           => /\ last'.name \notin Names(packages')
              /\ Awaited' = {}
              /\ Len(pending') = Len(pending) + 1
              /\ pending'[Len(pending')].phase = "timer"
        /\ \A i \in 1..Len(pending) :
              (TimerStep(i) /\ MainWithOthers(pending[i].snap, pending[i].name))
              => /\ last'.out = "issued"
                 /\ Cardinality(Awaited') = Cardinality(Awaited) + 1
                 /\ Len(pending') = Len(pending)
                 /\ pending'[i].phase = "await"
                 /\ pending'[i].specs =
                        MainSpecs(withoutTarget(pending[i].snap, pending[i].name))
        /\ \A i \in 1..Len(pending) :
              (Completed(i) /\ pending[i].kind = "remove"
                            /\ last'.out = "resolved")
              => /\ Len(packages') = Len(last'.res.packages)
                 /\ \A k \in 1..Len(packages') :
                       /\ packages'[k].name = last'.res.packages[k].name
                       /\ packages'[k].version = last'.res.packages[k].version
      ]_vars

\* a main record was removed while another main record remained: it is gone
\* and the timer of its re-resolution is pending
C11_Witness ==
    /\ last.op = "remove"
    /\ last.out = "scheduled"
    /\ last.name \notin Names(packages)
    /\ \E i \in 1..Len(pending) :
          /\ pending[i].phase = "timer"
          /\ MainWithOthers(pending[i].snap, last.name)

\* the target is the only main record
LastMain(pkgs, n) ==
    /\ n \in Names(pkgs)
    /\ ~Find(pkgs, n).isDependency
    /\ mainPackages(withoutTarget(pkgs, n)) = <<>>

\* C12: Remove of the last main record empties the package set, dependency
\* records included, with auto-resolve enabled or disabled, and issues no
\* resolver call: the call itself issues none and the timer callback, where
\* one was scheduled, ends without issuing one.
C12_RemoveLastMainEmpties ==
    [][ /\ (/\ calls' = calls + 1
            /\ last'.op = "remove"
            /\ ~isResolvingDependencies
            /\ LastMain(packages, last'.name))
           => /\ packages' = <<>>
              /\ Awaited' = {}
        /\ \A i \in 1..Len(pending) :
              (TimerStep(i) /\ LastMain(pending[i].snap, pending[i].name))
              => /\ last'.out = "idle"
                 /\ Awaited' = {}
                 /\ pending' = Without(pending, i)
                 /\ packages' = packages
      ]_vars

\* the last main record was removed and its dependency records went with it
C12_Witness ==
    /\ last.op = "remove"
    /\ last.out = "idle"
    /\ packages = <<>>
    /\ dependencyResolution.present
    /\ \E k \in 1..Len(dependencyResolution.packages) :
          dependencyResolution.packages[k].name
              \notin mainPackageNames(dependencyResolution)

\* C13: UpdateVersion writes newVersion, whatever it is, into the version
\* of every record named name and changes nothing else: the records, their
\* order and their other fields, lastResolution, the in-flight flag and the
\* continuations are as before, and no resolver call is issued; without a
\* record of that name the package set is as before.
C13_UpdateVersionFrame ==
    [][ (calls' = calls + 1 /\ last'.op = "update")
        => /\ Len(packages') = Len(packages)
           /\ \E v \in EditedVersions :
                 \A k \in 1..Len(packages) :
                    packages'[k] =
                        IF packages[k].name = last'.name
                        THEN Pkg(packages[k].name, v, packages[k].isDependency,
                                 packages[k].hash, packages[k].fullName)
                        ELSE packages[k]
           /\ last'.name \notin Names(packages) => packages' = packages
           /\ dependencyResolution' = dependencyResolution
           /\ isResolvingDependencies' = isResolvingDependencies
           /\ Awaited' = Awaited
           /\ Len(pending') = Len(pending)
           /\ autoResolve' = autoResolve
      ]_vars

\* the version of a dependency record was edited while a resolver call was
\* outstanding
C13_Witness ==
    /\ last.op = "update"
    /\ isResolvingDependencies
    /\ \E k \in 1..Len(packages) :
          /\ packages[k].name = last.name
          /\ packages[k].isDependency
          /\ packages[k].version \in EditedVersions

\* the lowercased names of the records
LowerNames(pkgs) == {Lower(pkgs[k].name) : k \in 1..Len(pkgs)}

\* the records whose lowercased name is key
WithKey(pkgs, key) == {k \in 1..Len(pkgs) : Lower(pkgs[k].name) = key}

\* the step is a call of op that the in-flight flag does not turn away
Accepted(op) ==
    /\ calls' = calls + 1
    /\ ~isResolvingDependencies
    /\ last'.op = op

\* C14: AddFromSearch called a second time with the same name, right after
\* the first call has completed (locally, or by the success or the failure
\* of its resolver call), issues no resolver call and leaves exactly one
\* record of that canonical name.
C14_IdempotentAdd ==
    [][ (/\ last.op = "select"
         /\ last.out \in {"local", "duplicate", "resolved", "failed"}
         /\ pending = <<>>
         /\ Accepted("select")
         /\ last'.name = last.name)
        => /\ pending' = pending
           /\ Cardinality(WithKey(packages', Lower(last.name))) = 1
      ]_vars

\* the records AddFromSearch or AddFromTemplate is asked for in this step
Asked ==
    IF last'.op = "select"
    THEN {<<Pkg(pick[1], pick[2], FALSE, None, None)>> :
             pick \in {pick \in SearchPicks : pick[1] = last'.name}}
    ELSE {[k \in 1..Len(t) |-> TemplatePkg(t[k])] : t \in TemplateCatalog}

\* the records of asked whose canonical name no record of pkgs has
Missing(asked, pkgs) ==
    LET Absent(p) == Lower(p.name) \notin LowerNames(pkgs)
    IN  SelectSeq(asked, Absent)

\* C15: with auto-resolve disabled AddFromSearch and AddFromTemplate issue
\* no resolver call and leave the previous records as they were, followed by
\* one main record for each requested package whose canonical name no
\* record had; a requested package whose canonical name is present is
\* skipped.
C15_LocalAdd ==
    [][ (/\ ~autoResolve
         /\ \/ Accepted("select")
            \/ Accepted("template"))
        => /\ pending' = pending
           /\ isResolvingDependencies' = isResolvingDependencies
           /\ \E asked \in Asked :
                 packages' = packages \o Missing(asked, packages)
      ]_vars

\* the specifiers a call adds to those of the main records it found
AddedSpecs ==
    IF Len(pending') > Len(pending)
    THEN SubSeq(pending'[Len(pending')].specs,
                Len(MainSpecs(packages)) + 1,
                Len(pending'[Len(pending')].specs))
    ELSE <<>>

\* C16: AddFromSearch and AddFromTemplate detect a duplicate by the canonical
\* name, compared case-insensitively: a requested package whose canonical
\* name a record already has is neither inserted nor submitted to the
\* resolver.
C16_CanonicalDuplicateDetection ==
    [][ (\/ Accepted("select")
         \/ Accepted("template"))
        => \E asked \in Asked :
              \A k \in 1..Len(asked) :
                 Lower(asked[k].name) \in LowerNames(packages)
                 => /\ Cardinality(WithKey(packages', Lower(asked[k].name)))
                          = Cardinality(WithKey(packages, Lower(asked[k].name)))
                    /\ \A j \in 1..Len(AddedSpecs) :
                          SpecBase(AddedSpecs[j]) # Lower(asked[k].name)
      ]_vars

\* C17: once set, the in-flight flag is released again, given that the
\* resolver answers and the timer fires: on success, on failure, on the
\* early return of a duplicate add and when no main record remains.  The
\* flag is down again and again, which is the same as
\* isResolvingDependencies ~> ~isResolvingDependencies.
C17_FlagReleased == []<>~isResolvingDependencies

\* the flag is down again after the resolver call of a removal failed
C17_Witness ==
    /\ ~isResolvingDependencies
    /\ pending = <<>>
    /\ last.op = "remove"
    /\ last.out = "failed"

\* C18: a resolver call is issued only by an accepted AddFromSearch,
\* AddFromTemplate or Upload, or by the timer of an accepted Remove, one
\* call each; an awaited call is never issued again, and when it fails it
\* is over: nothing is awaited in its place.
C18_NoRetry ==
    [][ /\ Cardinality(Awaited') > Cardinality(Awaited)
           => /\ Cardinality(Awaited') = Cardinality(Awaited) + 1
              /\ last'.out = "issued"
              /\ \/ /\ calls' = calls + 1
                    /\ ~isResolvingDependencies
                    /\ last'.op \in {"select", "template", "upload"}
                    /\ Len(pending') = Len(pending) + 1
                 \/ /\ calls' = calls
                    /\ Len(pending') = Len(pending)
                    /\ \E i \in 1..Len(pending) : TimerStep(i)
        /\ calls' = calls + 1 => Len(pending') <= Len(pending) + 1
        /\ \A i \in Awaited :
              \/ /\ Len(pending') = Len(pending)
                 /\ pending'[i].phase = "await"
                 /\ pending'[i].specs = pending[i].specs
              \/ /\ pending' = Without(pending, i)
                 /\ last'.out \in {"resolved", "failed"}
        /\ (last'.out = "failed" /\ last' # last)
           => /\ Cardinality(Awaited') = Cardinality(Awaited) - 1
              /\ Len(pending') = Len(pending) - 1
      ]_vars

\* a resolver call has failed, its fallback is in place and nothing is
\* outstanding
C18_Witness ==
    /\ last.out = "failed"
    /\ last.op \in {"select", "template"}
    /\ Awaited = {}
    /\ pending = <<>>
    /\ packages # <<>>

\* the settings of the round trip
RoundTripSettings ==
    [showDependencies |-> TRUE, includeHashes |-> TRUE,
     exportFormat |-> "standard", customIndex |-> ""]

\* C19: in every reachable state, the text exported with exportFormat
\* standard, includeHashes and showDependencies parses to as many records
\* as were exported, with the (name, version, hash) of the exported
\* records, a name being compared as a canonical name, without regard to
\* letter case.
C19_RoundTrip ==
    LET exported == packagesToExport(packages, RoundTripSettings)
        parsed   == parseRequirementsContent(
                        requirementsContent(packages, RoundTripSettings))
    IN  /\ Len(parsed) = Len(exported)
        /\ \A k \in 1..Len(exported) :
              /\ Lower(parsed[k].name) = Lower(exported[k].name)
              /\ parsed[k].version = exported[k].version
              /\ parsed[k].hash = exported[k].hash

\* C20: generating the export text, under any settings, leaves the package
\* list as it was, in content and in order.
C20_ExportLeavesPackages ==
    [][ last'.op = "export" => packages' = packages ]_vars

-----------------------------------------------------------------------------
(* Export text *)

\* the lines of an exported text: the text split at its newlines, a text
\* that is empty having no line
TextLines(text) == IF text = <<>> THEN <<>> ELSE SplitLines(text)

\* the records an export under settings s selects, as positions of packages
Selected(s) ==
    {k \in 1..Len(packages) : s.showDependencies \/ ~packages[k].isDependency}

\* the line the export is to write for a record
LineFor(pkg, s) ==
    LET shown  == IF pkg.fullName # None /\ pkg.fullName # ""
                  THEN pkg.fullName ELSE pkg.name
        suffix == IF s.exportFormat = "loose" THEN <<>>
                  ELSE <<IF s.exportFormat = "standard" THEN "=" ELSE ">", "=">>
                       \o Lex(pkg.version)
        digest == IF s.includeHashes /\ pkg.hash # None /\ pkg.hash # ""
                  THEN <<" ", "--hash=", "sha256:", pkg.hash>> ELSE <<>>
    IN  Lex(shown) \o suffix \o digest

\* the lines ahead of the package lines: the index directive and a blank line
IndexLines(s) ==
    IF s.customIndex = "" THEN <<>>
    ELSE << <<"--index-url", " ", s.customIndex>>, <<>> >>

\* C21: whenever an export has run, the text generated from the package
\* list is, under every export setting and joined by newlines: the index directive line and a
\* blank line when customIndex is set, then exactly one line per selected
\* record (every record with showDependencies, else the records that are
\* not dependencies), the line being fullName if present else name, then
\* "==version" (standard), ">=version" (pinned) or nothing (loose), then
\* " --hash=sha256:<hash>" only with includeHashes and a record hash.
C21_ExportContent ==
    last.op = "export" =>
    \A s \in ExportSettings :
        \E lines \in {TextLines(requirementsContent(packages, s))} :
        \E due \in {[k \in Selected(s) |-> LineFor(packages[k], s)]} :
            LET ahead == Len(IndexLines(s))
                Times(L) == Cardinality({k \in (ahead + 1)..Len(lines) : lines[k] = L})
                Due(L) == Cardinality({k \in Selected(s) : due[k] = L})
            IN  /\ Len(lines) = ahead + Cardinality(Selected(s))
                /\ \A k \in 1..ahead : lines[k] = IndexLines(s)[k]
                /\ \A k \in Selected(s) : Times(due[k]) = Due(due[k])

\* an export has run on a list that holds a dependency, a record with a
\* hash and a record whose fullName differs from its name
C21_Witness ==
    /\ last.op = "export"
    /\ \E k \in 1..Len(packages) : packages[k].isDependency
    /\ \E k \in 1..Len(packages) : packages[k].hash # None
    /\ \E k \in 1..Len(packages) :
          packages[k].fullName # None /\ packages[k].fullName # packages[k].name

-----------------------------------------------------------------------------
(* Orphans *)

Range(seq) == {seq[i] : i \in 1..Len(seq)}

\* the names a package requires, by the index or by the fallback table
RequiredBy(n) == Range(Requires(Lower(n))) \cup Range(mockDependencies(Lower(n)))

\* the dependency records that came with package n and that no main
\* record of pkgs requires
OrphansOf(n, pkgs) ==
    {k \in 1..Len(pkgs) :
        /\ pkgs[k].isDependency
        /\ pkgs[k].name \in RequiredBy(n)
        /\ \A j \in 1..Len(pkgs) :
              ~pkgs[j].isDependency => pkgs[k].name \notin RequiredBy(pkgs[j].name)}

\* C22: once a Remove has run to its end (nothing is scheduled or awaited
\* any more), the package list holds no dependency record that the removed
\* package required and no remaining main package requires.  Nothing is
\* left running that could remove such a record later, so a state that
\* violates this, repeated for ever, is a behaviour in which the orphan is
\* never removed.
C22_OrphanCleanup ==
    (/\ last.op = "remove"
     /\ last.out \in {"local", "idle", "resolved", "failed"}
     /\ pending = <<>>)
    => OrphansOf(last.name, packages) = {}

-----------------------------------------------------------------------------
(* fullName *)

\* the names with bracketed extras among the strings the model holds
WithExtras == {"flask[async]"}

\* C23: in every reachable state a record carries a fullName only if it is
\* a main record whose specifier held bracketed extras.
C23_FullNameOnlyWithExtras ==
    \A k \in 1..Len(packages) :
        packages[k].fullName # None =>
            /\ ~packages[k].isDependency
            /\ packages[k].fullName \in WithExtras

-----------------------------------------------------------------------------
(* The re-resolution after Remove works on the list of the call *)

\* the specifier list for the main records of pkgs other than n
SpecsWithout(pkgs, n) ==
    LET kept == SelectSeq(pkgs, LAMBDA p : p.name # n /\ ~p.isDependency)
    IN  [k \in 1..Len(kept) |->
            IF kept[k].version = "latest" THEN <<kept[k].name>>
            ELSE <<kept[k].name, "=", "=">> \o Lex(kept[k].version)]

\* C24: the delayed re-resolution after Remove works on the package list
\* captured when Remove was called.  The accepted call captures the list
\* it sees; no step other than the firing of the timer changes what a
\* waiting timer has captured; the timer callback requests the specifiers
\* of the captured main records other than the removed one, whatever the
\* package list is when it fires; and when the request succeeds the
\* package set becomes the reconciliation of the response with the
\* captured list.
C24_StaleSnapshot ==
    [][ /\ (calls' = calls + 1 /\ last'.op = "remove" /\ last'.out = "scheduled")
           => /\ Len(pending') = Len(pending) + 1
              /\ pending'[Len(pending')].snap = packages
              /\ pending'[Len(pending')].name = last'.name
        /\ \A i \in 1..Len(pending) :
              (pending[i].kind = "remove" /\ pending[i].phase = "timer"
                                          /\ ~TimerStep(i))
              => \E j \in 1..Len(pending') : pending'[j] = pending[i]
        /\ \A i \in 1..Len(pending) :
              (TimerStep(i) /\ last'.out = "issued")
              => /\ pending'[i].specs = SpecsWithout(pending[i].snap, pending[i].name)
                 /\ pending'[i].snap = withoutTarget(pending[i].snap, pending[i].name)
        /\ \A i \in 1..Len(pending) :
              (Completed(i) /\ pending[i].kind = "remove" /\ last'.out = "resolved")
              => packages' = Reconcile(pending[i].snap, last'.res)
      ]_vars

\* the timer of a removal has fired after an UpdateVersion inside the delay
\* window: the package list holds a main record with the typed version and
\* the request that is awaited names that package with another version
C24_Witness ==
    /\ last.op = "remove"
    /\ last.out = "issued"
    /\ \E i \in 1..Len(pending), k \in 1..Len(packages) :
          /\ pending[i].kind = "remove"
          /\ pending[i].phase = "await"
          /\ ~packages[k].isDependency
          /\ packages[k].version \in EditedVersions
          /\ \E j \in 1..Len(pending[i].specs) :
                /\ pending[i].specs[j][1] = packages[k].name
                /\ pending[i].specs[j] # SpecOf(packages[k].name, packages[k].version)

-----------------------------------------------------------------------------
(* Remove while the flag is set *)

\* the continuations of a Remove: its timer, or its awaited request
RemovePending == {i \in 1..Len(pending) : pending[i].kind = "remove"}

\* C25: the in-flight flag is set when a Remove with auto-resolve is
\* accepted and stays set while its timer or its request is pending; a
\* Remove called while the flag is set changes nothing: the target stays,
\* nothing is scheduled, and the flag, the stored resolution and the
\* pending continuations are as before.
C25_RemoveWhileBusy ==
    [][ /\ (calls' = calls + 1 /\ last'.op = "remove" /\ last'.out = "scheduled")
           => isResolvingDependencies'
        /\ RemovePending' # {} => isResolvingDependencies'
        /\ (calls' = calls + 1 /\ last'.op = "remove" /\ isResolvingDependencies)
           => /\ last'.out = "rejected"
              /\ packages' = packages
              /\ last'.name \in Names(packages')
              /\ pending' = pending
              /\ isResolvingDependencies' = isResolvingDependencies
              /\ dependencyResolution' = dependencyResolution
      ]_vars

\* a Remove was called inside the delay window of an earlier Remove and
\* was rejected
C25_Witness ==
    /\ last.op = "remove"
    /\ last.out = "rejected"
    /\ last.name \in Names(packages)
    /\ \E i \in RemovePending : pending[i].phase = "timer"
    /\ isResolvingDependencies

-----------------------------------------------------------------------------
(* The request of AddFromSearch *)

\* C26: AddFromSearch with auto-resolve enabled, for a package whose
\* canonical name no record has, issues exactly one resolver request; its
\* specifier list has, for every main record of the current list and in
\* that order, the bare name when the version is "latest" and
\* name==version otherwise, with the version the record has now, and then
\* the specifier of the new package; no dependency record is submitted.
C26_AddRequest ==
    [][ (/\ Accepted("select")
         /\ autoResolve
         /\ Lower(last'.name) \notin LowerNames(packages))
        => LET mains == SelectSeq(packages, LAMBDA p : ~p.isDependency)
               op    == pending'[Len(pending')]
           IN  /\ last'.out = "issued"
               /\ pending' = Append(pending, op)
               /\ Awaited' = Awaited \cup {Len(pending')}
               /\ Len(op.specs) = Len(mains) + 1
               /\ \A k \in 1..Len(mains) :
                     op.specs[k] =
                        IF mains[k].version = "latest" THEN <<mains[k].name>>
                        ELSE <<mains[k].name, "=", "=">> \o Lex(mains[k].version)
               /\ \E pick \in SearchPicks :
                     /\ pick[1] = last'.name
                     /\ op.specs[Len(op.specs)] =
                           IF pick[2] = "latest" THEN <<pick[1]>>
                           ELSE <<pick[1], "=", "=", pick[2]>>
      ]_vars

\* an Add was issued from a list that holds a dependency record and a main
\* record whose version the user has typed: the request names that record
\* with the typed version and names no dependency
C26_Witness ==
    /\ last.op = "select"
    /\ last.out = "issued"
    /\ \E k \in 1..Len(packages) : packages[k].isDependency
    /\ \E k \in 1..Len(packages) :
          /\ ~packages[k].isDependency
          /\ packages[k].version \in EditedVersions
          /\ \E i \in Awaited :
                <<packages[k].name, "=", "=">> \o Lex(packages[k].version)
                    \in Range(pending[i].specs)

-----------------------------------------------------------------------------
(* The parser on its own *)

\* the longest text built from OrderLines
MaxLines == 3

\* the pieces a specifier line is made of: name, constraint, environment
\* marker, hash directives
NameParts ==
    { <<>>, <<"flask">>, <<"Flask">>, <<"flask", "[", "async", "]">>,
      <<"[", "async", "]">> }

ConstraintParts ==
    { <<>>, <<"=", "=", "2.0">>, <<">", "=", "2.0">>, <<"~", "=", "2.0">>,
      <<" ", ">", "=", " ", "2.0">>, <<">", "=", "2.0", ",", "<", "3.0">> }

MarkerParts == { <<>>, <<" ", ";", " ", "python_version", "<", "3.8">> }

HashParts ==
    { <<>>,
      <<" ", "--hash=", "sha256:", "aa">>,
      <<" ", "--hash=", "sha256:", "aa", " ", "--hash=", "sha256:", "bb">>,
      <<" ", "--hash=", "sha256:", "XYZ", " ", "--hash=", "sha256:", "bb">> }

SpecifierLines ==
    {n \o c \o m \o h : n \in NameParts, c \in ConstraintParts,
                        m \in MarkerParts, h \in HashParts}

\* the lines of the texts of several lines
OrderLines ==
    { <<"numpy", "=", "=", "1.24.0", " ", "--hash=", "sha256:", "bb">>,
      <<"Flask", ">", "=", "2.0">>,
      <<"#", " ", "comment">>,
      <<"=", "=", "2.0">> }

\* the files parsed: every specifier line as a file of one line, and the
\* files of two to MaxLines lines of OrderLines
ParserTexts ==
    {<<line>> : line \in SpecifierLines}
    \cup UNION {[1..n -> OrderLines] : n \in 2..MaxLines}

\* parseRequirementsContent(content) for the file with the given lines
ParseFile(lines) ==
    /\ packages' = parseRequirementsContent(JoinLines(lines))
    /\ last' = [op |-> "parse", out |-> "", name |-> "", res |-> NoResolution,
                text |-> lines]
    /\ UNCHANGED <<autoResolve, isResolvingDependencies, dependencyResolution,
                   pending, calls, panelVars>>

ParserNext == \E lines \in ParserTexts : ParseFile(lines)

ParserSpec == Init /\ [][ParserNext]_vars

\* the file of the last parse
ParsedLines == IF last.op = "parse" THEN last.text ELSE <<>>

\* what a line holds ahead of its first hash directive and of its
\* environment marker, trimmed
SpecifierOf(line) ==
    LET clean == Before(line, FirstIn(line, {"--hash="}))
    IN  Trim(Before(clean, FirstIn(clean, {";"})))

\* the name part of a line: the specifier up to its first comparison
\* operator character, without extras
NamePartOf(line) ==
    LET spec == SpecifierOf(line)
        name == Trim(Before(spec, FirstIn(spec, OpChars)))
    IN  Before(name, FirstIn(name, {"["}))

\* a line the parser is to read: not blank, not a comment, not an option
Requirement(line) ==
    LET t == Trim(line)
    IN  t # <<>> /\ t[1] # "#" /\ t[1] \notin DashTokens

\* C27: the parser returns no record with an empty name, and a line whose
\* name part is empty once the hash directives, the environment marker and
\* the version constraint are taken off produces no record: the records
\* are as many as the requirement lines with a name part that is not empty.
C27_EmptyNameDropped ==
    /\ \A k \in 1..Len(packages) : packages[k].name # ""
    /\ Len(packages) =
          Cardinality({k \in 1..Len(ParsedLines) :
                          /\ Requirement(ParsedLines[k])
                          /\ NamePartOf(ParsedLines[k]) # <<>>})

-----------------------------------------------------------------------------
(* The parser: hash directives *)

\* the lines of the last parse that gave a record, in their order
Producing ==
    SelectSeq(ParsedLines,
              LAMBDA line : parseRequirementsContent(line) # <<>>)

\* the digest of the first '--hash=sha256:<hex>' directive of a line
FirstDigest(line) ==
    LET at == {i \in 1..(Len(line) - 2) :
                  /\ line[i] = "--hash="
                  /\ line[i + 1] = "sha256:"
                  /\ line[i + 2] \in HexTokens}
    IN  IF at = {} THEN None
        ELSE line[(CHOOSE i \in at : \A j \in at : i <= j) + 2]

\* a line without its hash directives
WithoutDirectives(line) == Before(line, FirstIn(line, {"--hash="}))

\* C28: the records of a parse are those of its lines, one by one, and for
\* each: the hash is the digest of the first '--hash=sha256:<hex>'
\* directive of the line, and is unset when the line has none; name and
\* version are those the line gives without its hash directives.
C28_HashHandling ==
    /\ Len(packages) = Len(Producing)
    /\ \A k \in 1..Len(Producing) :
          LET bare == parseRequirementsContent(WithoutDirectives(Producing[k]))
          IN  /\ packages[k].hash = FirstDigest(Producing[k])
              /\ Len(bare) = 1
              /\ packages[k].name = bare[1].name
              /\ packages[k].version = bare[1].version
              /\ bare[1].hash = None

\* a line with two hash directives was parsed and the record has the
\* digest of the first
C28_Witness ==
    /\ last.op = "parse"
    /\ \E k \in 1..Len(Producing) :
          /\ Cardinality({i \in 1..Len(Producing[k]) :
                             Producing[k][i] = "--hash="}) = 2
          /\ Producing[k][FirstIn(Producing[k], {"--hash="}) + 2] = "aa"
          /\ packages[k].hash = "aa"

-----------------------------------------------------------------------------
(* The parser: name and version *)

\* the text with its leading comparison operator characters taken off
RECURSIVE Unprefixed(_)
Unprefixed(ts) ==
    IF ts # <<>> /\ ts[1] \in OpChars THEN Unprefixed(Tail(ts)) ELSE ts

\* C29: the records of a parse are those of the lines that give one, in
\* the order of the lines; each specifier is split at its first comparison
\* operator character (> = < ~ !): the name is what is ahead of it, the
\* version is "latest" when there is no operator, and otherwise the
\* constraint from the operator on, without its leading operator
\* characters; every record has isDependency false.
C29_NameVersionSplit ==
    /\ Len(packages) = Len(Producing)
    /\ \A k \in 1..Len(packages) :
          LET spec == SpecifierOf(Producing[k])
              at   == FirstIn(spec, OpChars)
          IN  /\ ~packages[k].isDependency
              /\ packages[k].name = Join(NamePartOf(Producing[k]))
              /\ packages[k].version =
                    IF at = 0 THEN "latest"
                    ELSE Join(Unprefixed(Trim(From(spec, at))))

-----------------------------------------------------------------------------
(* Export order *)

\* the package lines of the text exported under s are those of the
\* records of packagesToExport, in that order
LinesFollow(s) ==
    LET exported == packagesToExport(packages, s)
        lines    == TextLines(requirementsContent(packages, s))
        ahead    == Len(IndexLines(s))
    IN  /\ Len(lines) = ahead + Len(exported)
        /\ \A k \in 1..Len(exported) : lines[ahead + k] = LineFor(exported[k], s)

\* C30: whenever an export has run, under every export setting the package
\* lines of the text generated from the package list are in the order of
\* String.prototype.localeCompare on the record names (alphabetical, letter
\* case deciding only between names that are otherwise equal, the lowercase
\* form first), whatever the order of the package list and whatever the
\* fullName of the records.
C30_ExportOrderCollation ==
    last.op = "export" =>
    \A s \in ExportSettings :
        /\ LinesFollow(s)
        /\ \E exported \in {packagesToExport(packages, s)} :
              \A k \in 1..(Len(exported) - 1) :
                 Rank(exported[k].name) <= Rank(exported[k + 1].name)

\* C30 as it is claimed: the package lines are in ascending order of the
\* code units of the record names.
C30_ExportOrderOrdinal ==
    last.op = "export" =>
    \A s \in ExportSettings :
        /\ LinesFollow(s)
        /\ \E exported \in {packagesToExport(packages, s)} :
              \A k \in 1..(Len(exported) - 1) :
                 Ordinal[exported[k].name] <= Ordinal[exported[k + 1].name]

\* an export with showDependencies has run on a list with two names that
\* the two orders place differently
C30_Witness ==
    /\ last.op = "export"
    /\ last.out = "all"
    /\ \E j, k \in 1..Len(packages) :
          /\ Rank(packages[j].name) < Rank(packages[k].name)
          /\ Ordinal[packages[j].name] > Ordinal[packages[k].name]

-----------------------------------------------------------------------------
(* The specifiers of a request *)

\* a bare name, or a name, "==" and a version
BareOrPinned(spec) ==
    LET at == FirstIn(spec, OpChars)
    IN  \/ at = 0
        \/ /\ at > 1
           /\ Len(spec) >= at + 2
           /\ spec[at] = "=" /\ spec[at + 1] = "="
           /\ FirstIn(SubSeq(spec, at + 2, Len(spec)), OpChars) = 0

\* C31: every specifier of every request that is awaited, whichever
\* operation issued it, is a bare name or a name qualified with "==" and a
\* version: no other comparison operator is sent to the resolver.
C31_OnlyPinnedSpecifiers ==
    \A i \in Awaited :
        \A j \in 1..Len(pending[i].specs) : BareOrPinned(pending[i].specs[j])

-----------------------------------------------------------------------------
(* SettingsPanel: the cache refresh button *)

\* const oneMinute = 60 * 1000, in seconds
oneMinute == 60

\* the clock stops here
MaxTime == 64

\* a button that is never disabled
canRefreshAlways == TRUE

\* const canRefresh = !isRefreshing && remainingTime === 0
canRefresh == ~panel.isRefreshing /\ panel.remainingTime = 0

\* getRemainingTime() at time t
getRemainingTime(t) ==
    IF panel.lastRefresh = 0 THEN 0
    ELSE IF oneMinute - (t - panel.lastRefresh) > 0
         THEN oneMinute - (t - panel.lastRefresh) ELSE 0

\* the continuations of handleRefreshCache: the awaited request, with the
\* now of the call, and the timer that re-enables the button
RefreshOp(phase, at, due) ==
    [kind |-> "refresh", phase |-> phase, at |-> at, due |-> due]

RefreshEvent(out) == Event("refresh", out)

\* a click on the button: it does nothing while the button is disabled;
\* otherwise handleRefreshCache runs up to its await
ClickRefresh ==
    /\ IF ~canRefresh
       THEN /\ last' = RefreshEvent("disabled")
            /\ UNCHANGED <<panel, pending>>
       ELSE IF panel.lastRefresh # 0 /\ now - panel.lastRefresh < oneMinute
       THEN /\ last' = RefreshEvent("rejected")
            /\ UNCHANGED <<panel, pending>>
       ELSE /\ panel' = [panel EXCEPT !.isRefreshing = TRUE]
            /\ pending' = Append(pending, RefreshOp("await", now, 0))
            /\ last' = RefreshEvent("issued")
    /\ UNCHANGED <<packages, autoResolve, isResolvingDependencies,
                   dependencyResolution, calls, now, refreshed>>

\* try { await apiClient.refreshCache(); setLastRefresh(now);
\*       setTimeout(() => setIsRefreshing(false), oneMinute) }
RefreshSucceeds(i) ==
    /\ pending[i].kind = "refresh"
    /\ pending[i].phase = "await"
    /\ panel' = [panel EXCEPT !.lastRefresh = pending[i].at]
    /\ pending' = [pending EXCEPT ![i] = RefreshOp("timer", pending[i].at, now + oneMinute)]
    /\ refreshed' = now
    /\ last' = RefreshEvent("succeeded")
    /\ UNCHANGED <<packages, autoResolve, isResolvingDependencies,
                   dependencyResolution, calls, now>>

\* catch { setIsRefreshing(false) }
RefreshFails(i) ==
    /\ pending[i].kind = "refresh"
    /\ pending[i].phase = "await"
    /\ panel' = [panel EXCEPT !.isRefreshing = FALSE]
    /\ pending' = Without(pending, i)
    /\ last' = RefreshEvent("failed")
    /\ UNCHANGED <<packages, autoResolve, isResolvingDependencies,
                   dependencyResolution, calls, now, refreshed>>

\* the setTimeout callback: setIsRefreshing(false), once its delay is over
RefreshTimerFires(i) ==
    /\ pending[i].kind = "refresh"
    /\ pending[i].phase = "timer"
    /\ now >= pending[i].due
    /\ panel' = [panel EXCEPT !.isRefreshing = FALSE]
    /\ pending' = Without(pending, i)
    /\ last' = RefreshEvent("enabled")
    /\ UNCHANGED <<packages, autoResolve, isResolvingDependencies,
                   dependencyResolution, calls, now, refreshed>>

\* a second passes and the setInterval callback runs:
\* setRemainingTime(getRemainingTime())
Tick ==
    /\ now < MaxTime
    /\ now' = now + 1
    /\ panel' = [panel EXCEPT !.remainingTime = getRemainingTime(now + 1)]
    /\ last' = RefreshEvent("tick")
    /\ UNCHANGED <<packages, autoResolve, isResolvingDependencies,
                   dependencyResolution, pending, calls, refreshed>>

RefreshNext ==
    \/ ClickRefresh
    \/ \E i \in 1..Len(pending) : RefreshSucceeds(i)
    \/ \E i \in 1..Len(pending) : RefreshFails(i)
    \/ \E i \in 1..Len(pending) : RefreshTimerFires(i)
    \/ Tick

RefreshSpec == Init /\ [][RefreshNext]_vars

\* the refresh requests that are awaited
RefreshAwaited ==
    {i \in 1..Len(pending) : pending[i].kind = "refresh" /\ pending[i].phase = "await"}

\* less than a minute has passed since a refresh request succeeded
Cooling == refreshed # 0 /\ now - refreshed < oneMinute

\* the step is a click on the refresh button
Click == last'.op = "refresh" /\ last'.out \in {"disabled", "rejected", "issued"}

\* C32: no refresh request is issued while less than a minute has passed
\* since a refresh request succeeded: a click inside that minute changes
\* nothing.  A refresh request that fails records no cooldown (lastRefresh
\* is as before, the button is enabled again) and a click right after the
\* failure issues a request.
C32_RefreshRateLimit ==
    [][ /\ (Click /\ Cooling)
           => /\ last'.out # "issued"
              /\ panel' = panel
              /\ pending' = pending
        /\ Cardinality(RefreshAwaited') > Cardinality(RefreshAwaited) => ~Cooling
        /\ (last'.op = "refresh" /\ last'.out = "failed")
           => /\ panel'.lastRefresh = panel.lastRefresh
              /\ ~panel'.isRefreshing
        /\ (last.op = "refresh" /\ last.out = "failed" /\ Click)
           => /\ last'.out = "issued"
              /\ Cardinality(RefreshAwaited') = Cardinality(RefreshAwaited) + 1
      ]_vars

\* a click inside the minute after a success was without effect, the
\* request having been answered some seconds after it was made
C32_Witness ==
    /\ last.op = "refresh"
    /\ last.out \in {"disabled", "rejected"}
    /\ Cooling
    /\ panel.lastRefresh # 0
    /\ panel.lastRefresh < refreshed
    /\ now - panel.lastRefresh >= oneMinute

-----------------------------------------------------------------------------
(* UpdateVersion while a resolution is outstanding *)

\* the requests of AddFromSearch, AddFromTemplate and Upload that are awaited
AddAwaited ==
    {i \in Awaited : pending[i].kind \in {"select", "template", "upload"}}

\* the records of pkgs whose name the call pending[i] saw, with no such
\* version: those edited since the call
EditedSince(i, pkgs) ==
    {k \in 1..Len(pkgs) :
        /\ pkgs[k].name \in Names(pending[i].snap)
        /\ \A j \in 1..Len(pending[i].snap) :
              pending[i].snap[j].name = pkgs[k].name
                 => pending[i].snap[j].version # pkgs[k].version}

\* C33: UpdateVersion is not held back by the in-flight flag.  Called while
\* a request of AddFromSearch, AddFromTemplate or Upload is awaited, it
\* sets the version of the named records at once and leaves the awaited
\* requests as they were issued; when the request succeeds every record
\* has the version of the response, so the edit is gone; a record edited
\* since the call keeps the edited version past the end of the request
\* only if the request failed, and after a failed AddFromSearch or
\* AddFromTemplate it does keep it.
C33_UpdateWhileResolving ==
    [][ /\ (calls' = calls + 1 /\ last'.op = "update" /\ AddAwaited # {})
           => /\ Len(packages') = Len(packages)
              /\ \A k \in 1..Len(packages) :
                    /\ packages[k].name = last'.name
                          => packages'[k].version \in EditedVersions
                    /\ packages[k].name # last'.name => packages'[k] = packages[k]
              /\ Len(pending') = Len(pending)
              /\ \A i \in 1..Len(pending) :
                    /\ pending'[i].phase = pending[i].phase
                    /\ pending'[i].specs = pending[i].specs
        /\ \A i \in AddAwaited :
              (Completed(i) /\ last'.out = "resolved")
              => /\ Len(packages') = Len(last'.res.packages)
                 /\ \A k \in 1..Len(packages') :
                       packages'[k].version = last'.res.packages[k].version
        /\ \A i \in AddAwaited :
              (/\ Completed(i)
               /\ pending[i].kind # "upload"
               /\ \E k \in EditedSince(i, packages) :
                     \E m \in 1..Len(packages') :
                        /\ packages'[m].name = packages[k].name
                        /\ packages'[m].version = packages[k].version)
              => last'.out = "failed"
        /\ \A i \in AddAwaited :
              (Completed(i) /\ pending[i].kind # "upload" /\ last'.out = "failed")
              => \A k \in EditedSince(i, packages) :
                    \E m \in 1..Len(packages') : packages'[m] = packages[k]
      ]_vars

\* UpdateVersion has just set the version of a main record while an Add is
\* awaited whose request names that record with the version it had
C33_Witness ==
    /\ last.op = "update"
    /\ isResolvingDependencies
    /\ \E i \in AddAwaited, k \in 1..Len(packages) :
          /\ pending[i].kind = "select"
          /\ packages[k].name = last.name
          /\ ~packages[k].isDependency
          /\ k \in EditedSince(i, packages)
          /\ SpecOf(packages[k].name, packages[k].version) \notin Range(pending[i].specs)
          /\ \E j \in 1..Len(pending[i].specs) : pending[i].specs[j][1] = packages[k].name

-----------------------------------------------------------------------------
(* AddFromSearch of a dependency *)

\* pkgs has a dependency record of that name
IsDependencyOf(pkgs, n) ==
    \E k \in 1..Len(pkgs) : pkgs[k].name = n /\ pkgs[k].isDependency

\* C34: AddFromSearch of a name that the package list has as a dependency
\* record changes nothing: no request is issued, the list is as it was (the
\* record is still a dependency, with its version), and the flag and the
\* stored resolution are as before.
C34_AddOfDependency ==
    [][ (/\ calls' = calls + 1
         /\ last'.op = "select"
         /\ IsDependencyOf(packages, last'.name))
        => /\ packages' = packages
           /\ pending' = pending
           /\ isResolvingDependencies' = isResolvingDependencies
           /\ dependencyResolution' = dependencyResolution
      ]_vars

\* AddFromSearch was called, with no call in flight, for a name that is a
\* dependency record, and the record is one still
C34_Witness ==
    /\ last.op = "select"
    /\ last.out \in {"duplicate", "local"}
    /\ IsDependencyOf(packages, last.name)
    /\ \A k \in 1..Len(packages) :
          packages[k].name = last.name => packages[k].isDependency

-----------------------------------------------------------------------------
(* The stored resolution *)

\* C35: in every reachable state with a stored resolution and nothing
\* pending, the names of the package list are the keys of the packages of
\* the stored resolution; an empty package list has no stored resolution.
C35_ResolutionNeverStale ==
    (dependencyResolution.present /\ pending = <<>>)
    => /\ Names(packages) = Keys(dependencyResolution)
       /\ packages # <<>>

=============================================================================
